---- MODULE Spec2Model ----
(***************************************************************************)
(* Model of VSC.py: the atempo_chain helper and the script lines that      *)
(* select the speed factor, call the helper and build the ffmpeg command.  *)
(*                                                                         *)
(* Numbers.  A Python float is modelled as an exact rational <<n, d>> with *)
(* d > 0, never normalised; comparisons are by cross-multiplication.  The  *)
(* only arithmetic atempo_chain performs is /= 2.0 and *= 2.0, which is    *)
(* exact in binary floating point, so the rational model follows the code  *)
(* step for step.  The widget values of the script are hundredths,         *)
(* <<n, Scale>>.                                                           *)
(***************************************************************************)
EXTENDS Integers, Sequences, FiniteSets, TLC

VARIABLES uploaded_file, speed_slider, speed_manual, speed_factor,
          pc, sf, tempos, setpts

vars == <<uploaded_file, speed_slider, speed_manual, speed_factor,
          pc, sf, tempos, setpts>>

(***************************************************************************)
(* Bounds of the model                                                     *)
(***************************************************************************)
\* direct calls of atempo_chain take n/d with n in -NegNum..MaxNum, d in 1..MaxDen
MaxNum == 40
NegNum == 2
MaxDen == 12
\* cap on the length of tempos (only a non-positive argument reaches it)
MaxStages == 8

(***************************************************************************)
(* Program constants                                                       *)
(***************************************************************************)
\* widget values are multiples of 0.01 (step=0.01, format="%.2f")
Scale == 100
\* min_speed, max_speed = 0.1, 8.0, in hundredths
min_speed == 10
max_speed == 800
\* slider: default 1.0, step 0.05, in hundredths
slider_default == 100
slider_step == 5
\* the tolerance 1e-6 is 1/TolDen
TolDen == 1000000

(***************************************************************************)
(* Rational arithmetic                                                     *)
(***************************************************************************)
NoValue == <<0, 0>>

Abs(x) == IF x < 0 THEN 0 - x ELSE x

RatEq(a, b) == a[1] * b[2] = b[1] * a[2]
RatLt(a, b) == a[1] * b[2] < b[1] * a[2]
RatLe(a, b) == a[1] * b[2] <= b[1] * a[2]
RatMul(a, b) == <<a[1] * b[1], a[2] * b[2]>>
Positive(a) == a[1] > 0

Two == <<2, 1>>
Half == <<1, 2>>
One == <<1, 1>>

RECURSIVE Pow2(_)
Pow2(k) == IF k = 0 THEN 1 ELSE 2 * Pow2(k - 1)

RECURSIVE Product(_)
Product(s) == IF s = <<>> THEN One ELSE RatMul(Head(s), Product(Tail(s)))

(***************************************************************************)
(* atempo_chain(sf)                                                        *)
(***************************************************************************)
\* sf > 2.0
Gt2_Ge(x) == x[1] >= 2 * x[2]
Gt2_Four(x) == x[1] > 4 * x[2]
Gt2(x) == x[1] > 2 * x[2]

\* sf < 0.5
LtHalf_Le(x) == 2 * x[1] <= x[2]
LtHalf(x) == 2 * x[1] < x[2]

\* sf /= 2.0
Halve_Quarter(x) == <<x[1], 4 * x[2]>>
Halve_Keep(x) == x
Halve(x) == <<x[1], 2 * x[2]>>

\* sf *= 2.0
Double_AddHalf(x) == <<2 * x[1] + x[2], 2 * x[2]>>
Double_Quad(x) == <<4 * x[1], x[2]>>
Double(x) == <<2 * x[1], x[2]>>

\* atempo_filters = atempo_chain(speed_factor): bind the parameter, tempos = []
CallAtempo ==
    /\ pc = "call"
    /\ sf' = speed_factor
    /\ tempos' = <<>>
    /\ pc' = "loop1"
    /\ UNCHANGED <<uploaded_file, speed_slider, speed_manual, speed_factor, setpts>>

\* while sf > 2.0: tempos.append("atempo=2.0"); sf /= 2.0
Loop1Body ==
    /\ pc = "loop1"
    /\ Gt2(sf)
    /\ Len(tempos) < MaxStages
    /\ tempos' = Append(tempos, Two)
    /\ sf' = Halve(sf)
    /\ UNCHANGED <<uploaded_file, speed_slider, speed_manual, speed_factor, pc, setpts>>

Loop1Exit ==
    /\ pc = "loop1"
    /\ ~Gt2(sf)
    /\ pc' = "loop2"
    /\ UNCHANGED <<uploaded_file, speed_slider, speed_manual, speed_factor, sf, tempos, setpts>>

\* while sf < 0.5: tempos.append("atempo=0.5"); sf *= 2.0
Loop2Body ==
    /\ pc = "loop2"
    /\ LtHalf(sf)
    /\ Len(tempos) < MaxStages
    /\ tempos' = Append(tempos, Half)
    /\ sf' = Double(sf)
    /\ UNCHANGED <<uploaded_file, speed_slider, speed_manual, speed_factor, pc, setpts>>

Loop2Exit ==
    /\ pc = "loop2"
    /\ ~LtHalf(sf)
    /\ pc' = "final"
    /\ UNCHANGED <<uploaded_file, speed_slider, speed_manual, speed_factor, sf, tempos, setpts>>

\* tempos.append(f"atempo={sf}"); return ",".join(tempos)
Final_Prepend ==
    /\ pc = "final"
    /\ tempos' = <<sf>> \o tempos
    /\ pc' = "ret"
    /\ UNCHANGED <<uploaded_file, speed_slider, speed_manual, speed_factor, sf, setpts>>

Final_Arg ==
    /\ pc = "final"
    /\ tempos' = Append(tempos, speed_factor)
    /\ pc' = "ret"
    /\ UNCHANGED <<uploaded_file, speed_slider, speed_manual, speed_factor, sf, setpts>>

Final ==
    /\ pc = "final"
    /\ tempos' = Append(tempos, sf)
    /\ pc' = "ret"
    /\ UNCHANGED <<uploaded_file, speed_slider, speed_manual, speed_factor, sf, setpts>>

(***************************************************************************)
(* Direct calls of atempo_chain: any caller, any argument n/d              *)
(***************************************************************************)
ChainInputs == {<<n, d>> : n \in (0 - NegNum)..MaxNum, d \in 1..MaxDen}

InitChain ==
    /\ uploaded_file = FALSE
    /\ speed_slider = <<slider_default, Scale>>
    /\ speed_manual = <<slider_default, Scale>>
    /\ speed_factor \in ChainInputs
    /\ pc = "call"
    /\ sf = NoValue
    /\ tempos = <<>>
    /\ setpts = NoValue

NextChain ==
    \/ CallAtempo
    \/ Loop1Body
    \/ Loop1Exit
    \/ Loop2Body
    \/ Loop2Exit
    \/ Final

ChainSpec == InitChain /\ [][NextChain]_vars

\* the interpreter runs the function to its end: no step is postponed forever
FairChainSpec == ChainSpec /\ WF_vars(NextChain)

(***************************************************************************)
(* The script: widgets, speed selection, the processing branch             *)
(***************************************************************************)
\* st.slider("...", min_speed, max_speed, 1.0, 0.05)
SliderValues ==
    {<<n, Scale>> : n \in {m \in min_speed..max_speed : (m - min_speed) % slider_step = 0}}

\* st.number_input(min_value=min_speed, max_value=max_speed, step=0.01, format="%.2f")
ManualValues == {<<n, Scale>> : n \in min_speed..max_speed}

\* abs(speed_manual - speed_slider) > 1e-6.  With a = |m1*s2 - s1*m2| and D = m2*s2
\* the test is a/D > 1/TolDen, that is a > D/TolDen, and for an integer a that is
\* a > D \div TolDen (written so to stay within 32-bit integers)
ManualChanged_Never(m, s) == FALSE
ManualChanged(m, s) == Abs(m[1] * s[2] - s[1] * m[2]) > (m[2] * s[2]) \div TolDen

\* if abs(...) > 1e-6: speed_factor = speed_manual  else: speed_factor = speed_slider
SelectSpeed ==
    /\ pc = "select"
    /\ speed_factor' = IF ManualChanged(speed_manual, speed_slider)
                       THEN speed_manual
                       ELSE speed_slider
    /\ pc' = "guard"
    /\ UNCHANGED <<uploaded_file, speed_slider, speed_manual, sf, tempos, setpts>>

\* uploaded_file and speed_factor > 0
ShouldProcess_NoUpload == Positive(speed_factor)
ShouldProcess == uploaded_file /\ Positive(speed_factor)

\* if uploaded_file and speed_factor > 0: ... (the script ends otherwise)
Guard ==
    /\ pc = "guard"
    /\ pc' = IF ShouldProcess THEN "call" ELSE "skip"
    /\ UNCHANGED <<uploaded_file, speed_slider, speed_manual, speed_factor, sf, tempos, setpts>>

\* 1/speed_factor
Reciprocal_Same(x) == x
Reciprocal(x) == <<x[2], x[1]>>

\* ffmpeg_cmd = [..., "-vf", f"setpts={1/speed_factor}*PTS", "-af", atempo_filters, ...]
BuildCmd ==
    /\ pc = "ret"
    /\ setpts' = Reciprocal(speed_factor)
    /\ pc' = "cmd"
    /\ UNCHANGED <<uploaded_file, speed_slider, speed_manual, speed_factor, sf, tempos>>

\* one run of the script, for every file state and every pair of widget values
Init ==
    /\ uploaded_file \in BOOLEAN
    /\ speed_slider \in SliderValues
    /\ speed_manual \in ManualValues
    /\ speed_factor = NoValue
    /\ pc = "select"
    /\ sf = NoValue
    /\ tempos = <<>>
    /\ setpts = NoValue

Next ==
    \/ SelectSpeed
    \/ Guard
    \/ CallAtempo
    \/ Loop1Body
    \/ Loop1Exit
    \/ Loop2Body
    \/ Loop2Exit
    \/ Final
    \/ BuildCmd

Spec == Init /\ [][Next]_vars

(***************************************************************************)
(* Properties                                                              *)
(***************************************************************************)
InBand(x) == RatLe(Half, x) /\ RatLe(x, Two)

InChain == pc \in {"loop1", "loop2", "final", "ret"}

SeqEq(a, b) == Len(a) = Len(b) /\ \A i \in 1..Len(a) : RatEq(a[i], b[i])

RatMax(a, b) == IF RatLt(a, b) THEN b ELSE a

RatInv(x) == <<x[2], x[1]>>

\* 2^-k <= x <= 2^k
WithinPow(x, k) == x[2] <= x[1] * Pow2(k) /\ x[1] <= Pow2(k) * x[2]

\* the least k >= 1 with 2^-k <= x <= 2^k
MinStages(x) ==
    CHOOSE k \in 1..(MaxStages + 2) :
        WithinPow(x, k) /\ \A j \in 1..(k - 1) : ~WithinPow(x, j)

\* 2^j >= x, for any integer j
Pow2Ge(j, x) == IF j >= 0 THEN Pow2(j) * x[2] >= x[1] ELSE x[2] >= x[1] * Pow2(0 - j)

\* ceil(log2(x)), x > 0: the least integer j with 2^j >= x
CeilLog2(x) ==
    CHOOSE j \in (0 - (MaxStages + 2))..(MaxStages + 2) :
        Pow2Ge(j, x) /\ ~Pow2Ge(j - 1, x)

\* ceil(log2(max(s, 1/s) / 2)) + 1
StageFormula(s) == CeilLog2(RatMul(RatMax(s, RatInv(s)), Half)) + 1

\* C1: for s > 0 every stage multiplier emitted by atempo_chain(s), each 2.0,
\* each 0.5 and the final remaining value, lies in [0.5, 2.0].
C1_StagesInBand ==
    (Positive(speed_factor) /\ InChain) =>
        \A i \in 1..Len(tempos) : InBand(tempos[i])

C1_Witness ==
    /\ pc = "ret"
    /\ Positive(speed_factor)
    /\ Len(tempos) >= 3
    /\ tempos[1] = Half
    /\ ~RatEq(tempos[Len(tempos)], Half)

\* C2: for s > 0 the product of the stage multipliers of the returned chain is s
\* (and, while the loops run, the stages emitted so far times the remaining sf is s).
C2_ProductIsS ==
    (Positive(speed_factor) /\ InChain) =>
        IF pc = "ret"
        THEN RatEq(Product(tempos), speed_factor)
        ELSE RatEq(RatMul(Product(tempos), sf), speed_factor)

C2_Witness ==
    /\ pc = "ret"
    /\ Positive(speed_factor)
    /\ Len(tempos) >= 4
    /\ tempos[1] = Two
    /\ ~RatEq(tempos[Len(tempos)], One)

\* C3: for 0.5 <= s <= 2.0, both boundary values included, neither loop body runs
\* (nothing is appended and sf is untouched before the final append) and the
\* returned chain is the single element s.
C3_SingleStage ==
    (InBand(speed_factor) /\ InChain) =>
        IF pc = "ret"
        THEN tempos = <<speed_factor>>
        ELSE tempos = <<>> /\ sf = speed_factor

C3_Witness ==
    /\ pc = "ret"
    /\ RatEq(speed_factor, Two)
    /\ tempos = <<speed_factor>>

\* C4: for s > 0 the length of the returned chain is the least k >= 1 with
\* 2^-k <= s <= 2^k, the fewest multipliers of [0.5, 2.0] whose product can be s.
C4_MinimalLength ==
    (Positive(speed_factor) /\ pc = "ret") =>
        Len(tempos) = MinStages(speed_factor)

C4_Witness ==
    /\ pc = "ret"
    /\ Positive(speed_factor)
    /\ Len(tempos) = 4
    /\ RatEq(speed_factor, <<1, 9>>)

\* C5 as stated: for s > 0 the number of stages is ceil(log2(max(s, 1/s) / 2)) + 1.
C5_Original ==
    (Positive(speed_factor) /\ pc = "ret") =>
        Len(tempos) = StageFormula(speed_factor)

\* C5 amended: for s > 0 other than 1 the number of stages is
\* ceil(log2(max(s, 1/s) / 2)) + 1; for s = 1 the chain has one stage, where the
\* formula gives 0.
C5_Amended ==
    (Positive(speed_factor) /\ pc = "ret") =>
        IF RatEq(speed_factor, One)
        THEN Len(tempos) = 1 /\ StageFormula(speed_factor) = 0
        ELSE Len(tempos) = StageFormula(speed_factor)

C5_Witness ==
    /\ pc = "ret"
    /\ Positive(speed_factor)
    /\ ~RatEq(speed_factor, One)
    /\ Len(tempos) >= 3
    /\ Len(tempos) = StageFormula(speed_factor)

\* C6: for s > 0 atempo_chain(s) terminates: every call reaches the return, and
\* what it returns is complete (its last stage is the remaining sf, inside the band).
C6_Terminates ==
    /\ [](Positive(speed_factor) /\ pc = "ret" =>
            /\ InBand(sf)
            /\ Len(tempos) >= 1
            /\ tempos[Len(tempos)] = sf)
    /\ (pc = "call" /\ Positive(speed_factor)) ~> (pc = "ret")

C6_Witness ==
    /\ pc = "ret"
    /\ Positive(speed_factor)
    /\ Len(tempos) >= 5
    /\ Len(tempos) < MaxStages

\* C7: the returned chain is a run of stages all 2.0, or a run of stages all 0.5
\* (never both), followed by exactly one final stage, the remaining value of s;
\* 4.0 gives [2.0, 2.0], 8.0 gives [2.0, 2.0, 2.0], 0.25 gives [0.5, 0.5] and
\* 3.0 gives [2.0, 1.5].
C7_Shape ==
    (Positive(speed_factor) /\ pc = "ret") =>
        LET k == Len(tempos) - 1 IN
        /\ k >= 0
        /\ tempos[k + 1] = sf
        /\ \/ /\ \A i \in 1..k : tempos[i] = Two
              /\ RatEq(<<sf[1] * Pow2(k), sf[2]>>, speed_factor)
           \/ /\ \A i \in 1..k : tempos[i] = Half
              /\ RatEq(<<sf[1], sf[2] * Pow2(k)>>, speed_factor)
        /\ RatEq(speed_factor, <<4, 1>>) => SeqEq(tempos, <<Two, Two>>)
        /\ RatEq(speed_factor, <<8, 1>>) => SeqEq(tempos, <<Two, Two, Two>>)
        /\ RatEq(speed_factor, <<1, 4>>) => SeqEq(tempos, <<Half, Half>>)
        /\ RatEq(speed_factor, <<3, 1>>) => SeqEq(tempos, <<Two, <<3, 2>>>>)

C7_Witness ==
    /\ pc = "ret"
    /\ RatEq(speed_factor, <<3, 1>>)
    /\ SeqEq(tempos, <<Two, <<3, 2>>>>)

\* C8: in every processing request the video factor is 1/s for the speed factor s
\* the chain was built from, so the video factor times the product of the chain's
\* stages is 1, for every s of the UI range [0.1, 8.0].
C8_VideoReciprocal ==
    pc = "cmd" =>
        /\ RatLe(<<min_speed, Scale>>, speed_factor)
        /\ RatLe(speed_factor, <<max_speed, Scale>>)
        /\ RatEq(RatMul(setpts, speed_factor), One)
        /\ RatEq(RatMul(setpts, Product(tempos)), One)

C8_Witness ==
    /\ pc = "cmd"
    /\ Len(tempos) = 4
    /\ speed_factor = <<min_speed, Scale>>
    /\ setpts = <<Scale, min_speed>>

\* C9: the script never calls atempo_chain with s <= 0: the call is reached only
\* with a file uploaded and speed_factor > 0, and the selected speed_factor (the
\* manual value if it differs from the slider, else the slider value) lies in
\* [0.1, 8.0].
C9_HostGuards ==
    /\ pc \in {"call", "loop1", "loop2", "final", "ret", "cmd"} =>
          uploaded_file /\ Positive(speed_factor)
    /\ InChain => Positive(sf)
    /\ pc # "select" =>
          /\ speed_factor =
                IF speed_manual[1] # speed_slider[1] THEN speed_manual ELSE speed_slider
          /\ RatLe(<<min_speed, Scale>>, speed_factor)
          /\ RatLe(speed_factor, <<max_speed, Scale>>)

C9_Witness ==
    /\ pc = "loop1"
    /\ uploaded_file
    /\ speed_manual # speed_slider
    /\ speed_factor = speed_manual
    /\ sf = speed_manual

\* C10: called with s <= 0, atempo_chain never returns: the first loop is skipped
\* and in the second loop sf < 0.5 stays true after every doubling (0 stays 0, a
\* negative value stays negative), so only 0.5 stages are appended and the final
\* append and the return are never reached.
C10_NeverReturns ==
    (~Positive(speed_factor) /\ pc # "call") =>
        /\ pc \in {"loop1", "loop2"}
        /\ pc = "loop1" => tempos = <<>> /\ ~Gt2(sf)
        /\ pc = "loop2" => LtHalf(sf)
        /\ \A i \in 1..Len(tempos) : tempos[i] = Half
        /\ (speed_factor[1] = 0) = (sf[1] = 0)
        /\ (speed_factor[1] < 0) = (sf[1] < 0)

C10_Witness ==
    /\ ~Positive(speed_factor)
    /\ pc = "loop2"
    /\ Len(tempos) >= 3
    /\ sf[1] < 0

====
